---- MODULE Spec2Model ----
(***************************************************************************)
(* Model of the <counter-app> custom element (src/counter-app.js).         *)
(*                                                                         *)
(* The element keeps four numbers (_counter, _start, _min, _max), mirrors  *)
(* four observed attributes (counter, start, min, max) that hold strings,  *)
(* renders into a shadow DOM, listens to keydown on window while attached, *)
(* and starts an asynchronous confetti effect when a step lands on 21.     *)
(*                                                                         *)
(* Strings are sequences of one-character strings, so that String(n) and   *)
(* Number(s) are computed and not assumed to be inverse to each other.     *)
(***************************************************************************)
EXTENDS Integers, Sequences, FiniteSets, TLC

VARIABLES
    counter,      \* this._counter
    start,        \* this._start
    min,          \* this._min
    max,          \* this._max
    attrs,        \* the element's observed attributes: name -> string, absent names are not in the domain
    connected,    \* the element is in the document
    keyListener,  \* this._onKey is registered for keydown on window
    rendered,     \* _render has run: this._$num, this._$inc, this._$dec exist
    dom,          \* the rendered surface
    imports,      \* _makeItRain calls suspended at "await import(...)"
    timers,       \* setTimeout callbacks of _makeItRain not yet run
    loaded,       \* the confetti module has been loaded (the module map caches it)
    popped,       \* the confetti container of the current render has the popped attribute
    warned,       \* console.warn('confetti import failed') has been logged
    rainCalls,    \* number of _makeItRain calls so far
    nEnv,         \* number of attribute updates by the page and insertions into the document so far
    lastOp        \* the operation that ran last

vars == << counter, start, min, max, attrs, connected, keyListener, rendered, dom,
           imports, timers, loaded, popped, warned, rainCalls, nEnv, lastOp >>

(***************************************************************************)
(* Bounds of the model.                                                    *)
(***************************************************************************)
\* attribute updates by the page plus insertions into the document, per behaviour
MaxEnv == 2
\* _makeItRain calls per behaviour
MaxRain == 1

(***************************************************************************)
(* Strings.                                                                *)
(***************************************************************************)
Digits == << "0", "1", "2", "3", "4", "5", "6", "7", "8", "9" >>

IsDigit(c) == \E i \in 1..10 : Digits[i] = c

DigitVal(c) == (CHOOSE i \in 1..10 : Digits[i] = c) - 1

InfinityText == << "I", "n", "f", "i", "n", "i", "t", "y" >>

\* the names of the observed attributes
observedAttributes == { "counter", "start", "min", "max" }

\* The strings the page writes into each attribute after creation: a string
\* that is no number ("x", "", "Infinity") and numbers in and out of the range.
Texts(name) ==
    IF name = "counter" THEN { << "x" >>, << "0", "3" >> }
    ELSE IF name = "start" THEN { << "x" >>, << "2", "1" >> }
    ELSE IF name = "min" THEN { << "x" >>, << "1", "8" >> }
    ELSE { << >>, InfinityText, << "1", "8" >>, << "2", "5" >> }

\* The attributes the element is created with (name, string pairs).
InitialConfigs ==
    { {},
      { << "max", << "2", "5" >> >> },
      { << "start", << "0", "5" >> >> },
      { << "start", << "2", "1" >> >> },
      { << "min", << "1", "8" >> >>, << "max", << "2", "1" >> >> },
      { << "counter", << "0", "5" >> >> } }

\* The keys pressed.
Keys == { "ArrowRight", "ArrowLeft", "r", "R", "x" }

(***************************************************************************)
(* String(n) for an integer n: the decimal digits, with a leading "-".     *)
(***************************************************************************)
RECURSIVE DecimalDigits(_)
DecimalDigits(n) ==
    IF n < 10 THEN << Digits[n + 1] >>
    ELSE DecimalDigits(n \div 10) \o << Digits[(n % 10) + 1] >>

String(n) == IF n < 0 THEN << "-" >> \o DecimalDigits(0 - n) ELSE DecimalDigits(n)

(***************************************************************************)
(* Number(s): StringToNumber of ECMAScript on the strings of the model.    *)
(* White space is trimmed; the empty string is 0; an optionally signed     *)
(* run of decimal digits is its value; an optionally signed "Infinity" is  *)
(* infinite; everything else is NaN.                                       *)
(***************************************************************************)
RECURSIVE TrimLeft(_)
TrimLeft(s) == IF s # << >> /\ Head(s) = " " THEN TrimLeft(Tail(s)) ELSE s

RECURSIVE TrimRight(_)
TrimRight(s) ==
    IF s # << >> /\ s[Len(s)] = " " THEN TrimRight(SubSeq(s, 1, Len(s) - 1)) ELSE s

Trim(s) == TrimRight(TrimLeft(s))

AllDigits(s) == s # << >> /\ \A i \in 1..Len(s) : IsDigit(s[i])

RECURSIVE DigitsValue(_)
DigitsValue(s) ==
    IF s = << >> THEN 0
    ELSE 10 * DigitsValue(SubSeq(s, 1, Len(s) - 1)) + DigitVal(s[Len(s)])

NaN == [k |-> "nan", v |-> 0]

Infinite == [k |-> "inf", v |-> 0]

Finite(n) == [k |-> "num", v |-> n]

Number(s) ==
    LET t == Trim(s)
        signed == t # << >> /\ Head(t) \in { "+", "-" }
        body == IF signed THEN Tail(t) ELSE t
        sign == IF signed /\ Head(t) = "-" THEN 0 - 1 ELSE 1
    IN  IF t = << >> THEN Finite(0)
        ELSE IF body = InfinityText THEN Infinite
        ELSE IF AllDigits(body) THEN Finite(sign * DigitsValue(body))
        ELSE NaN

isFinite(n) == n.k = "num"

(***************************************************************************)
(* The element as one record, so that a handler that calls another handler *)
(* (setAttribute re-entering attributeChangedCallback, _change calling     *)
(* _update and _makeItRain) is the composition of their effects.           *)
(***************************************************************************)
Cur ==
    [ counter |-> counter, start |-> start, min |-> min, max |-> max,
      attrs |-> attrs, connected |-> connected, keyListener |-> keyListener,
      rendered |-> rendered, dom |-> dom, imports |-> imports, timers |-> timers,
      loaded |-> loaded, popped |-> popped, warned |-> warned,
      rainCalls |-> rainCalls ]

Install(s) ==
    /\ counter' = s.counter
    /\ start' = s.start
    /\ min' = s.min
    /\ max' = s.max
    /\ attrs' = s.attrs
    /\ connected' = s.connected
    /\ keyListener' = s.keyListener
    /\ rendered' = s.rendered
    /\ dom' = s.dom
    /\ imports' = s.imports
    /\ timers' = s.timers
    /\ loaded' = s.loaded
    /\ popped' = s.popped
    /\ warned' = s.warned
    /\ rainCalls' = s.rainCalls

\* the constructor's defaults
DefaultCounter == 0

DefaultStart == 0

DefaultMin == 0

DefaultMax == 10

\* the shadow root before _render: no #num, #inc, #dec, #min, #max
EmptyDom ==
    [ text |-> << >>, minText |-> << >>, maxText |-> << >>,
      incDisabled |-> FALSE, decDisabled |-> FALSE, classes |-> {} ]

\* the element after the constructor, with no attribute and not in the document
constructor ==
    [ counter |-> DefaultCounter, start |-> DefaultStart, min |-> DefaultMin,
      max |-> DefaultMax, attrs |-> [n \in {} |-> << >>], connected |-> FALSE,
      keyListener |-> FALSE, rendered |-> FALSE, dom |-> EmptyDom, imports |-> 0,
      timers |-> 0, loaded |-> FALSE, popped |-> FALSE, warned |-> FALSE,
      rainCalls |-> 0 ]

\* getAttribute(name): null when the attribute is absent
Null == [present |-> FALSE, text |-> << >>]

Text(t) == [present |-> TRUE, text |-> t]

getAttribute(s, name) ==
    IF name \in DOMAIN s.attrs THEN Text(s.attrs[name]) ELSE Null

numAttr(s, name, fallback) ==
    LET v == getAttribute(s, name)
    IN  IF v = Null THEN fallback
        ELSE LET n == Number(v.text)
             IN  IF isFinite(n) THEN n.v ELSE fallback

\* the class list with at-min and at-max tried before at-18 and at-21
colorClasses_boundsFirst(s) ==
    ( IF s.counter = s.min THEN { "at-min" }
      ELSE IF s.counter = s.max THEN { "at-max" }
      ELSE IF s.counter = 18 THEN { "at-18" }
      ELSE IF s.counter = 21 THEN { "at-21" }
      ELSE {} )
    \cup
    ( IF s.counter = s.min \/ s.counter = s.max THEN { "bold" } ELSE {} )

\* the class list with bold added only next to at-min and at-max
colorClasses_boldInChain(s) ==
    IF s.counter = 18 THEN { "at-18" }
    ELSE IF s.counter = 21 THEN { "at-21" }
    ELSE IF s.counter = s.min THEN { "at-min", "bold" }
    ELSE IF s.counter = s.max THEN { "at-max", "bold" }
    ELSE {}

\* the class list _update leaves on #num
colorClasses(s) ==
    ( IF s.counter = 18 THEN { "at-18" }
      ELSE IF s.counter = 21 THEN { "at-21" }
      ELSE IF s.counter = s.min THEN { "at-min" }
      ELSE IF s.counter = s.max THEN { "at-max" }
      ELSE {} )
    \cup
    ( IF s.counter = s.min \/ s.counter = s.max THEN { "bold" } ELSE {} )

update(s) ==
    IF ~s.rendered THEN s
    ELSE [s EXCEPT !.dom =
            [ text |-> String(s.counter),
              minText |-> String(s.min),
              maxText |-> String(s.max),
              incDisabled |-> (s.counter >= s.max),
              decDisabled |-> (s.counter <= s.min),
              classes |-> colorClasses(s) ]]

\* the four assignments with start clamped into [min, max] as it is assigned
readAttribute_clampsStart(s, name) ==
    IF name = "counter" THEN [s EXCEPT !.counter = numAttr(s, "counter", s.counter)]
    ELSE IF name = "start"
    THEN [s EXCEPT !.start =
            IF numAttr(s, "start", s.start) > s.max THEN s.max
            ELSE IF numAttr(s, "start", s.start) < s.min THEN s.min
            ELSE numAttr(s, "start", s.start)]
    ELSE IF name = "min" THEN [s EXCEPT !.min = numAttr(s, "min", s.min)]
    ELSE IF name = "max" THEN [s EXCEPT !.max = numAttr(s, "max", s.max)]
    ELSE s

\* the four assignments with _start following the counter attribute as well
readAttribute_counterSetsStart(s, name) ==
    IF name = "counter"
    THEN [s EXCEPT !.counter = numAttr(s, "counter", s.counter),
                   !.start = numAttr(s, "counter", s.start)]
    ELSE IF name = "start" THEN [s EXCEPT !.start = numAttr(s, "start", s.start)]
    ELSE IF name = "min" THEN [s EXCEPT !.min = numAttr(s, "min", s.min)]
    ELSE IF name = "max" THEN [s EXCEPT !.max = numAttr(s, "max", s.max)]
    ELSE s

\* the assignments without the one for the counter attribute
readAttribute_ignoresCounter(s, name) ==
    IF name = "start" THEN [s EXCEPT !.start = numAttr(s, "start", s.start)]
    ELSE IF name = "min" THEN [s EXCEPT !.min = numAttr(s, "min", s.min)]
    ELSE IF name = "max" THEN [s EXCEPT !.max = numAttr(s, "max", s.max)]
    ELSE s

\* the four assignments of attributeChangedCallback: the field called name is
\* read from its attribute, with its own value as the fallback
readAttribute(s, name) ==
    IF name = "counter" THEN [s EXCEPT !.counter = numAttr(s, "counter", s.counter)]
    ELSE IF name = "start" THEN [s EXCEPT !.start = numAttr(s, "start", s.start)]
    ELSE IF name = "min" THEN [s EXCEPT !.min = numAttr(s, "min", s.min)]
    ELSE IF name = "max" THEN [s EXCEPT !.max = numAttr(s, "max", s.max)]
    ELSE s

\* attributeChangedCallback without its final _update
attributeChangedCallback_noUpdate(s, name, oldV, newV) ==
    IF oldV = newV THEN s ELSE readAttribute(s, name)

attributeChangedCallback(s, name, oldV, newV) ==
    IF oldV = newV THEN s ELSE update(readAttribute(s, name))

\* Element.setAttribute on an observed attribute: the attribute is written and
\* attributeChangedCallback runs before setAttribute returns
setAttribute(s, name, text) ==
    LET oldV == getAttribute(s, name)
        s1 == [s EXCEPT !.attrs =
                 [n \in (DOMAIN s.attrs) \cup {name} |->
                    IF n = name THEN text ELSE s.attrs[n]]]
    IN  attributeChangedCallback(s1, name, oldV, Text(text))

\* Element.removeAttribute on an observed attribute that is present
removeAttribute(s, name) ==
    LET oldV == getAttribute(s, name)
        s1 == [s EXCEPT !.attrs = [n \in (DOMAIN s.attrs) \ {name} |-> s.attrs[n]]]
    IN  attributeChangedCallback(s1, name, oldV, Null)

\* _makeItRain up to its await: the import is requested and the caller goes on
makeItRain(s) == [s EXCEPT !.rainCalls = @ + 1, !.imports = @ + 1]

\* _makeItRain after its await: the import resolved and the timeout is set
importResolved(s) == [s EXCEPT !.imports = @ - 1, !.timers = @ + 1, !.loaded = TRUE]

\* _makeItRain after its await: the import rejected and the catch block logs
importRejected(s) == [s EXCEPT !.imports = @ - 1, !.warned = TRUE]

\* a timeout callback that also puts the counter back to its start
timeoutFired_resetsCounter(s) ==
    [s EXCEPT !.timers = @ - 1, !.popped = @ \/ s.rendered, !.counter = s.start]

\* the timeout callback of _makeItRain: #confetti, if there is one, gets popped
timeoutFired(s) == [s EXCEPT !.timers = @ - 1, !.popped = @ \/ s.rendered]

\* _change and _doReset without their write of the counter attribute
reflectCounter_noWrite(s) == s

\* this.setAttribute('counter', String(this._counter))
reflectCounter(s) == setAttribute(s, "counter", String(s.counter))

\* if(this._counter === 21) this._makeItRain()
celebrateAt21(s) == IF s.counter = 21 THEN makeItRain(s) ELSE s

\* the same with >= in place of ===
celebrateFrom21(s) == IF s.counter >= 21 THEN makeItRain(s) ELSE s

\* _change that celebrates at 21 and above
change_celebratesFrom21(s, delta) ==
    IF s.counter + delta > s.max \/ s.counter + delta < s.min THEN s
    ELSE celebrateFrom21(update(reflectCounter([s EXCEPT !.counter = @ + delta])))

\* _change with the upper bound compared by >= instead of >
change_offByOne(s, delta) ==
    IF s.counter + delta >= s.max \/ s.counter + delta < s.min THEN s
    ELSE celebrateAt21(update(reflectCounter([s EXCEPT !.counter = @ + delta])))

\* _change that wraps round to min where next would pass max
change_wrapsAtMax(s, delta) ==
    IF s.counter + delta < s.min THEN s
    ELSE IF s.counter + delta > s.max
    THEN update(reflectCounter([s EXCEPT !.counter = s.min]))
    ELSE celebrateAt21(update(reflectCounter([s EXCEPT !.counter = @ + delta])))

\* const next = counter + delta; out of range: return; else the four statements
change(s, delta) ==
    IF s.counter + delta > s.max \/ s.counter + delta < s.min THEN s
    ELSE celebrateAt21(update(reflectCounter([s EXCEPT !.counter = @ + delta])))

MathMin(a, b) == IF a < b THEN a ELSE b

MathMax(a, b) == IF a > b THEN a ELSE b

\* _doReset without the lower bound
doReset_noLowerBound(s) ==
    update(reflectCounter([s EXCEPT !.counter = MathMin(s.max, s.start)]))

\* _doReset that keeps the value it replaces as the next reset target
doReset_swap(s) ==
    update(reflectCounter(
        [s EXCEPT !.counter = MathMin(s.max, MathMax(s.min, s.start)),
                  !.start = s.counter]))

\* _doReset without Math.min(this._max, ...)
doReset_noUpperBound(s) ==
    update(reflectCounter([s EXCEPT !.counter = MathMax(s.min, s.start)]))

\* Number(this._start ?? this._counter) is _start: _start is always a number
doReset(s) ==
    update(reflectCounter(
        [s EXCEPT !.counter = MathMin(s.max, MathMax(s.min, s.start))]))

\* String.prototype.toLowerCase on the keys of the model
\* a comparison of e.key itself with 'r'
toLowerCase_identity(key) == key

toLowerCase(key) ==
    IF key = "R" THEN "r"
    ELSE IF key = "ArrowRight" THEN "arrowright"
    ELSE IF key = "ArrowLeft" THEN "arrowleft"
    ELSE key

onKey(s, key) ==
    IF key = "ArrowRight" THEN change(s, 1)
    ELSE IF key = "ArrowLeft" THEN change(s, 0 - 1)
    ELSE IF toLowerCase(key) = "r" THEN doReset(s)
    ELSE s

\* _render: the shadow root is rebuilt (a new #confetti without popped), the
\* nodes are looked up, the click listeners are added and _update runs
render(s) == update([s EXCEPT !.rendered = TRUE, !.popped = FALSE])

\* the four assignments of connectedCallback, in their order: _start falls
\* back to the _counter the first assignment has just set
readCounter(s) == [s EXCEPT !.counter = numAttr(s, "counter", s.counter)]

readStart(s) == [s EXCEPT !.start = numAttr(s, "start", s.counter)]

readMin(s) == [s EXCEPT !.min = numAttr(s, "min", s.min)]

readMax(s) == [s EXCEPT !.max = numAttr(s, "max", s.max)]

\* window.addEventListener('keydown', this._onKey)
addKeyListener(s) == [s EXCEPT !.keyListener = TRUE]

connectedCallback(s) ==
    [addKeyListener(render(readMax(readMin(readStart(readCounter(s))))))
        EXCEPT !.connected = TRUE]

\* disconnectedCallback that leaves the keydown listener registered
disconnectedCallback_keepsListener(s) == [s EXCEPT !.connected = FALSE]

disconnectedCallback(s) == [s EXCEPT !.keyListener = FALSE, !.connected = FALSE]

(***************************************************************************)
(* The state machine.                                                      *)
(***************************************************************************)
\* what lastOp records of a keydown event: the handler _onKey dispatched to
keyOp(key) ==
    IF key = "ArrowRight" THEN "step+"
    ELSE IF key = "ArrowLeft" THEN "step-"
    ELSE IF toLowerCase(key) = "r" THEN "reset"
    ELSE "other"

\* the element is created with one attribute of its initial configuration
withAttribute(s, config, name) ==
    IF \E p \in config : p[1] = name
    THEN setAttribute(s, name, (CHOOSE p \in config : p[1] = name)[2])
    ELSE s

\* the element after the constructor and the attribute callbacks of its initial
\* configuration, not yet inserted into the document
created(config) ==
    withAttribute(
        withAttribute(
            withAttribute(
                withAttribute(constructor, config, "counter"),
                config, "start"),
            config, "min"),
        config, "max")

Init ==
    \E config \in InitialConfigs :
        LET s == created(config)
        IN  /\ counter = s.counter
            /\ start = s.start
            /\ min = s.min
            /\ max = s.max
            /\ attrs = s.attrs
            /\ connected = s.connected
            /\ keyListener = s.keyListener
            /\ rendered = s.rendered
            /\ dom = s.dom
            /\ imports = s.imports
            /\ timers = s.timers
            /\ loaded = s.loaded
            /\ popped = s.popped
            /\ warned = s.warned
            /\ rainCalls = s.rainCalls
            /\ nEnv = 0
            /\ lastOp = "other"

\* the page writes an attribute
SetAttribute(name, text) ==
    /\ nEnv < MaxEnv
    /\ Install(setAttribute(Cur, name, text))
    /\ nEnv' = nEnv + 1
    /\ lastOp' = "other"

\* the page removes an attribute
RemoveAttribute(name) ==
    /\ nEnv < MaxEnv
    /\ name \in DOMAIN attrs
    /\ Install(removeAttribute(Cur, name))
    /\ nEnv' = nEnv + 1
    /\ lastOp' = "other"

\* the element is inserted into the document
Connect ==
    /\ ~connected
    /\ nEnv < MaxEnv
    /\ Install(connectedCallback(Cur))
    /\ nEnv' = nEnv + 1
    /\ lastOp' = "other"

\* the element is removed from the document
Disconnect ==
    /\ connected
    /\ Install(disconnectedCallback(Cur))
    /\ lastOp' = "other"
    /\ UNCHANGED nEnv

\* a click on #inc (delta = 1) or #dec (delta = -1); a disabled button dispatches no click
ClickStep(delta) ==
    /\ rendered
    /\ IF delta = 1 THEN ~dom.incDisabled ELSE ~dom.decDisabled
    /\ Install(change(Cur, delta))
    /\ rainCalls' <= MaxRain
    /\ lastOp' = (IF delta = 1 THEN "step+" ELSE "step-")
    /\ UNCHANGED nEnv

\* a click on #reset
ClickReset ==
    /\ rendered
    /\ Install(doReset(Cur))
    /\ lastOp' = "reset"
    /\ UNCHANGED nEnv

\* a keydown event on window: _onKey runs if it is registered
KeyDown(key) ==
    /\ Install(IF keyListener THEN onKey(Cur, key) ELSE Cur)
    /\ rainCalls' <= MaxRain
    /\ lastOp' = (IF keyListener THEN keyOp(key) ELSE "other")
    /\ UNCHANGED nEnv

\* the dynamic import of _makeItRain resolves: the timeout is set
ImportResolved ==
    /\ imports > 0
    /\ Install(importResolved(Cur))
    /\ UNCHANGED << nEnv, lastOp >>

\* the dynamic import of _makeItRain rejects: the catch block logs a warning
ImportRejected ==
    /\ imports > 0
    /\ ~loaded
    /\ Install(importRejected(Cur))
    /\ UNCHANGED << nEnv, lastOp >>

\* the timeout callback of _makeItRain runs
TimeoutFired ==
    /\ timers > 0
    /\ Install(timeoutFired(Cur))
    /\ UNCHANGED << nEnv, lastOp >>

Next ==
    \/ \E name \in observedAttributes : \E text \in Texts(name) : SetAttribute(name, text)
    \/ \E name \in observedAttributes : RemoveAttribute(name)
    \/ Connect
    \/ Disconnect
    \/ \E delta \in { 0 - 1, 1 } : ClickStep(delta)
    \/ ClickReset
    \/ \E key \in Keys : KeyDown(key)
    \/ ImportResolved
    \/ ImportRejected
    \/ TimeoutFired

Spec == Init /\ [][Next]_vars

(***************************************************************************)
(* Vocabulary of the properties.                                           *)
(***************************************************************************)
\* a step(delta): a click on #inc / #dec, or the ArrowRight / ArrowLeft key
\* while the key listener is registered
IsStep(delta) ==
    /\ lastOp' = (IF delta = 1 THEN "step+" ELSE "step-")
    /\ \/ ClickStep(delta)
       \/ keyListener /\ KeyDown(IF delta = 1 THEN "ArrowRight" ELSE "ArrowLeft")

\* a reset: a click on #reset, or the r / R key while the key listener is registered
IsReset ==
    /\ lastOp' = "reset"
    /\ \/ ClickReset
       \/ keyListener /\ (KeyDown("r") \/ KeyDown("R"))

\* an attribute update by the page that writes text into the attribute name
IsUpdate(name, text) ==
    /\ nEnv' = nEnv + 1
    /\ name \in DOMAIN attrs'
    /\ attrs'[name] = text
    /\ SetAttribute(name, text)

\* clamp(x, lo, hi) for lo <= hi
Clamp(x, lo, hi) == IF x < lo THEN lo ELSE IF x > hi THEN hi ELSE x

\* a string that reads as a decimal integer: white space aside, an optional
\* sign followed by at least one digit
IsNumericText(text) ==
    LET t == Trim(text)
    IN  /\ t # << >>
        /\ AllDigits(IF Head(t) \in { "+", "-" } THEN Tail(t) ELSE t)

\* what a reset may change and what it shows
View(s) == << s.counter, s.start, s.min, s.max, s.attrs, s.dom >>

(***************************************************************************)
(* C1. In every reachable state min <= value <= max.                       *)
(* The code stores counter, min and max as configured, without clamping.   *)
(***************************************************************************)
C1_ValueWithinBounds == min <= counter /\ counter <= max

(***************************************************************************)
(* C2. step(delta) with next = value + delta: if next < min or next > max  *)
(* nothing changes (value, start, min, max, the counter attribute);        *)
(* otherwise value becomes next.                                           *)
(***************************************************************************)
C2_StepContract ==
    [][ \A delta \in { 0 - 1, 1 } :
          IsStep(delta) =>
            IF counter + delta < min \/ counter + delta > max
            THEN UNCHANGED << counter, start, min, max, attrs >>
            ELSE counter' = counter + delta /\ UNCHANGED << start, min, max >> ]_vars

\* step(+1) was rejected at value = max: no step or reset has ever written the
\* counter attribute, and the last operation was a step(+1)
C2_RejectedAtMax ==
    /\ lastOp = "step+"
    /\ counter = max
    /\ "counter" \notin DOMAIN attrs

(***************************************************************************)
(* C3. With min <= max, reset sets value to clamp(start, min, max),        *)
(* whatever value was before.                                              *)
(***************************************************************************)
C3_ResetClamps ==
    [][ (IsReset /\ min <= max) => counter' = Clamp(start, min, max) ]_vars

\* Scenario C: start = 5, min = 0, max = 10, the value was set by the page and
\* the reset wrote 5 into the counter attribute
C3_ScenarioC ==
    /\ lastOp = "reset"
    /\ start = 5 /\ min = 0 /\ max = 10
    /\ counter = 5
    /\ nEnv = 2
    /\ "counter" \in DOMAIN attrs
    /\ attrs["counter"] = << "5" >>

(***************************************************************************)
(* C4. Reset is idempotent: in a state a reset has produced, a second      *)
(* reset changes neither value, start, min, max, the attributes nor the    *)
(* rendered surface.                                                       *)
(***************************************************************************)
C4_ResetIdempotent ==
    (lastOp = "reset" /\ rendered) => View(doReset(Cur)) = View(Cur)

\* a reset has clamped start = 21 to max = 10
C4_AfterClampingReset ==
    /\ lastOp = "reset"
    /\ rendered
    /\ start = 21 /\ max = 10
    /\ counter = 10

(***************************************************************************)
(* C5. An attribute update that supplies a string that is no number leaves *)
(* the field (and the three others) at the value it had.                   *)
(* Number("") is 0, so the empty string is taken as the number 0.          *)
(***************************************************************************)
C5_InvalidUpdateRejected ==
    [][ \A name \in observedAttributes : \A text \in Texts(name) :
          (~IsNumericText(text) /\ IsUpdate(name, text)) =>
            UNCHANGED << counter, start, min, max >> ]_vars

(***************************************************************************)
(* C6. On insertion each field is initialised on its own: from its         *)
(* attribute if that is present and numeric, and otherwise left at its own *)
(* previous (default) value.                                               *)
(* connectedCallback falls back to _counter, not _start, for start.        *)
(***************************************************************************)
\* the number a numeric text denotes
TextValue(text) ==
    LET t == Trim(text)
    IN  IF Head(t) = "-" THEN 0 - DigitsValue(Tail(t))
        ELSE IF Head(t) = "+" THEN DigitsValue(Tail(t))
        ELSE DigitsValue(t)

Configured(name, previous) ==
    IF name \in DOMAIN attrs /\ IsNumericText(attrs[name])
    THEN TextValue(attrs[name])
    ELSE previous

C6_FieldsInitialisedIndependently ==
    [][ (~connected /\ connected' /\ Connect) =>
          /\ counter' = Configured("counter", counter)
          /\ start' = Configured("start", start)
          /\ min' = Configured("min", min)
          /\ max' = Configured("max", max) ]_vars

(***************************************************************************)
(* C7. Whenever a step or a reset makes value become 21, the celebratory   *)
(* effect is triggered (_makeItRain is called) by that transition.         *)
(* _doReset never calls _makeItRain.                                       *)
(***************************************************************************)
C7_TransitionTo21Celebrates ==
    [][ ( /\ counter # 21
          /\ counter' = 21
          /\ (IsReset \/ \E delta \in { 0 - 1, 1 } : IsStep(delta)) ) =>
          rainCalls' = rainCalls + 1 ]_vars

(***************************************************************************)
(* C8. A step triggers the celebratory effect exactly once if it is        *)
(* accepted and lands on 21, and not at all if it lands elsewhere or is    *)
(* rejected (also when rejected at value = max = 21).                      *)
(***************************************************************************)
C8_StepCelebratesOncePerLanding ==
    [][ \A delta \in { 0 - 1, 1 } :
          IsStep(delta) =>
            LET next == counter + delta
                lands == next >= min /\ next <= max /\ next = 21
            IN  /\ rainCalls' = rainCalls + (IF lands THEN 1 ELSE 0)
                /\ imports' = imports + (IF lands THEN 1 ELSE 0) ]_vars

\* Scenario B: created with max = "25" only, inserted once, never reconfigured;
\* the value has gone from 0 to 21 by steps and the effect was triggered once
C8_ScenarioB ==
    /\ lastOp = "step+"
    /\ min = 0 /\ max = 25 /\ start = 0
    /\ counter = 21
    /\ nEnv = 1
    /\ DOMAIN attrs = { "counter", "max" }
    /\ attrs["max"] = << "2", "5" >>
    /\ attrs["counter"] = << "2", "1" >>
    /\ rainCalls = 1

(***************************************************************************)
(* C9. The celebratory effect is fire-and-forget: the step that triggers   *)
(* it completes (value 21 stored, written to the attribute and rendered)   *)
(* while the import is still pending; the import resolving or rejecting    *)
(* and the timeout firing change neither value, start, min, max, the       *)
(* attributes nor the rendered surface; and no handler's effect on value,  *)
(* start, min and max depends on how far the effect has got.               *)
(***************************************************************************)
\* the element with no trace of the celebratory effect
Quiet(s) ==
    [s EXCEPT !.imports = 0, !.timers = 0, !.loaded = FALSE, !.popped = FALSE,
              !.warned = FALSE, !.rainCalls = 0]

Core(s) == << s.counter, s.start, s.min, s.max, s.attrs, s.dom >>

\* in a state the effect has left a trace in, every handler does to value,
\* start, min, max, the attributes and the surface what it does without the trace.
\* No handler reads lastOp, and a key that is no shortcut takes every state to
\* the same element with lastOp = "other": the elements compared there are all
\* the reachable ones.
EffectIndependent ==
    (rainCalls > 0 /\ lastOp = "other") =>
    /\ \A delta \in { 0 - 1, 1 } : Core(change(Cur, delta)) = Core(change(Quiet(Cur), delta))
    /\ Core(doReset(Cur)) = Core(doReset(Quiet(Cur)))
    /\ \A key \in Keys : Core(onKey(Cur, key)) = Core(onKey(Quiet(Cur), key))
    /\ \A name \in observedAttributes : \A text \in Texts(name) :
          Core(setAttribute(Cur, name, text)) = Core(setAttribute(Quiet(Cur), name, text))
    /\ \A name \in DOMAIN attrs :
          Core(removeAttribute(Cur, name)) = Core(removeAttribute(Quiet(Cur), name))
    /\ Core(connectedCallback(Cur)) = Core(connectedCallback(Quiet(Cur)))
    /\ Core(disconnectedCallback(Cur)) = Core(disconnectedCallback(Quiet(Cur)))

IsEffectStep ==
    /\ lastOp' = lastOp
    /\ nEnv' = nEnv
    /\ (ImportResolved \/ ImportRejected \/ TimeoutFired)

C9_FireAndForget ==
    /\ []EffectIndependent
    /\ [][ /\ IsEffectStep =>
              UNCHANGED << counter, start, min, max, attrs, dom, rendered,
                           connected, keyListener >>
           /\ (rainCalls' = rainCalls + 1) =>
              /\ imports' = imports + 1
              /\ counter' = 21
              /\ attrs'["counter"] = String(21)
              /\ dom'.text = String(21) ]_vars

\* the effect is still loading while a later step has moved the value on
C9_PendingWhileCounting ==
    /\ imports = 1
    /\ rainCalls = 1
    /\ counter = 22
    /\ lastOp = "step+"

(***************************************************************************)
(* C10. Once rendered, the surface is never stale: the text is the decimal *)
(* string of value, #inc is disabled iff value >= max and #dec is disabled *)
(* iff value <= min.                                                       *)
(***************************************************************************)
C10_SurfaceInSync ==
    rendered =>
        /\ dom.text = String(counter)
        /\ Number(dom.text) = Finite(counter)
        /\ dom.incDisabled <=> (counter >= max)
        /\ dom.decDisabled <=> (counter <= min)

\* the page has set the counter attribute to "03" and the surface shows 3
C10_AfterCounterUpdate ==
    /\ rendered
    /\ "counter" \in DOMAIN attrs
    /\ attrs["counter"] = << "0", "3" >>
    /\ counter = 3
    /\ dom.text = << "3" >>

(***************************************************************************)
(* C11. Once rendered, #num carries at most one colour class, the first    *)
(* that matches in the order value = 18 (at-18), value = 21 (at-21),       *)
(* value = min (at-min), value = max (at-max), and none if none matches.   *)
(***************************************************************************)
ColourNames == { "at-18", "at-21", "at-min", "at-max" }

C11_ColourByFirstMatch ==
    rendered =>
        /\ Cardinality(dom.classes \cap ColourNames) <= 1
        /\ "at-18" \in dom.classes <=> counter = 18
        /\ "at-21" \in dom.classes <=> counter = 21
        /\ "at-min" \in dom.classes <=> (counter \notin { 18, 21 } /\ counter = min)
        /\ "at-max" \in dom.classes <=>
              (counter \notin { 18, 21 } /\ counter # min /\ counter = max)

\* value = 18 = min: at-18 is applied and at-min is not
C11_At18BeatsAtMin ==
    /\ rendered
    /\ counter = 18 /\ min = 18
    /\ "at-18" \in dom.classes
    /\ "at-min" \notin dom.classes

(***************************************************************************)
(* C12. Once rendered, #num carries bold iff value = min or value = max,   *)
(* whichever colour class it carries.                                      *)
(***************************************************************************)
C12_BoldAtBounds ==
    rendered => ("bold" \in dom.classes <=> (counter = min \/ counter = max))

\* value = 18 = max (and not min): the classes are at-18 and bold
C12_At18AndBold ==
    /\ rendered
    /\ counter = 18 /\ max = 18 /\ min # 18
    /\ dom.classes = { "at-18", "bold" }

(***************************************************************************)
(* C13. The keydown listener is registered exactly while the element is in *)
(* the document: a key press while it is out of the document changes       *)
(* nothing, and a key press while it is in the document runs _onKey once.  *)
(***************************************************************************)
\* a keydown event with this key
IsKey(key) ==
    /\ nEnv' = nEnv
    /\ lastOp' = (IF keyListener THEN keyOp(key) ELSE "other")
    /\ KeyDown(key)

\* one run of what the key stands for: step(+1), step(-1), reset, nothing
OneTransition(key) ==
    IF key = "ArrowRight"
    THEN counter' = (IF counter + 1 > max \/ counter + 1 < min THEN counter ELSE counter + 1)
    ELSE IF key = "ArrowLeft"
    THEN counter' = (IF counter - 1 > max \/ counter - 1 < min THEN counter ELSE counter - 1)
    ELSE IF key \in { "r", "R" }
    THEN counter' = MathMin(max, MathMax(min, start))
    ELSE counter' = counter

C13_ListenerWhileAttached ==
    /\ [](keyListener <=> connected)
    /\ [][ \A key \in Keys :
             IsKey(key) =>
               IF connected
               THEN OneTransition(key) /\ UNCHANGED << start, min, max >>
               ELSE UNCHANGED << counter, start, min, max, attrs, dom, rendered,
                                 connected, keyListener, imports, timers, loaded,
                                 popped, warned, rainCalls >> ]_vars

\* the element was attached, value went to 1, the element was detached and
\* attached again (start = 1 comes from that insertion), and one more step
\* took value from 1 to 2
C13_StepAfterReattachment ==
    /\ connected /\ keyListener
    /\ lastOp = "step+"
    /\ start = 1
    /\ counter = 2
    /\ nEnv = 2

(***************************************************************************)
(* C14. start is clamped at reset time only: an attribute update of start  *)
(* to the number n stores n, inside [min, max] or not, and leaves value;   *)
(* updates of min and max and resets leave start; a reset with min <= max  *)
(* sets value to clamp(start, min, max), which is the nearer bound while n *)
(* is outside and n once the bounds include it.                            *)
(***************************************************************************)
C14_StartClampedAtResetOnly ==
    [][ /\ \A text \in Texts("start") :
              (IsNumericText(text) /\ IsUpdate("start", text)) =>
                 /\ start' = TextValue(text)
                 /\ UNCHANGED << counter, min, max >>
        /\ \A name \in { "min", "max" } : \A text \in Texts(name) :
              IsUpdate(name, text) => UNCHANGED << start, counter >>
        /\ IsReset =>
              /\ UNCHANGED << start, min, max >>
              /\ (min <= max /\ start > max) => counter' = max
              /\ (min <= max /\ start < min) => counter' = min
              /\ (min <= start /\ start <= max) => counter' = start ]_vars

\* start = 21 was outside [0, 10]; the bounds were widened to [0, 25] by an
\* update of max, and a reset has set value to 21
C14_ResetAfterWidening ==
    /\ lastOp = "reset"
    /\ "start" \in DOMAIN attrs /\ attrs["start"] = << "2", "1" >>
    /\ "max" \in DOMAIN attrs /\ attrs["max"] = << "2", "5" >>
    /\ start = 21 /\ min = 0 /\ max = 25
    /\ counter = 21
    /\ nEnv = 2

(***************************************************************************)
(* C15. From value = min with min <= max, step(+1) raises value by one     *)
(* each time until, after exactly max - min steps, value = max; further    *)
(* step(+1)s leave value at max; there #inc is disabled and, when max is   *)
(* neither 18 nor 21 nor min, #num carries at-max and bold.                *)
(***************************************************************************)
\* what the claim says of the element at value = max
AtMax(s) ==
    /\ s.dom.incDisabled
    /\ (s.max \notin { 18, 21 } /\ s.max # s.min) =>
          ({ "at-max", "bold" } \subseteq s.dom.classes)

\* s is the element after n step(+1)s from value = min
RECURSIVE Climbs(_, _)
Climbs(s, n) ==
    IF s.counter = s.max
    THEN /\ n = s.max - s.min
         /\ AtMax(s)
         /\ change(s, 1).counter = s.max
         /\ change(change(s, 1), 1).counter = s.max
    ELSE /\ n < s.max - s.min
         /\ change(s, 1).counter = s.counter + 1
         /\ change(s, 1).min = s.min
         /\ change(s, 1).max = s.max
         /\ Climbs(change(s, 1), n + 1)

C15_ClimbToMax ==
    (rendered /\ counter = min /\ min <= max) => Climbs(Cur, 0)

\* Scenario A: the defaults, ten step(+1)s from 0: value = 10, #inc disabled,
\* at-max and bold
C15_ScenarioA ==
    /\ lastOp = "step+"
    /\ min = 0 /\ max = 10 /\ start = 0
    /\ DOMAIN attrs = { "counter" }
    /\ attrs["counter"] = << "1", "0" >>
    /\ counter = 10
    /\ nEnv = 1
    /\ dom.incDisabled
    /\ dom.classes = { "at-max", "bold" }

(***************************************************************************)
(* C16. Reflection in both directions: a step that changes value and every *)
(* reset leave the decimal string of the new value in the counter          *)
(* attribute; an attribute update of counter, start, min or max to a       *)
(* numeric string sets that field to the number.                           *)
(***************************************************************************)
\* the field called name after the transition
FieldAfter(name) ==
    IF name = "counter" THEN counter'
    ELSE IF name = "start" THEN start'
    ELSE IF name = "min" THEN min'
    ELSE max'

C16_ReflectedBothWays ==
    [][ /\ \A delta \in { 0 - 1, 1 } :
              (IsStep(delta) /\ counter' # counter) =>
                 /\ "counter" \in DOMAIN attrs'
                 /\ attrs'["counter"] = String(counter')
        /\ IsReset =>
              /\ "counter" \in DOMAIN attrs'
              /\ attrs'["counter"] = String(counter')
        /\ \A name \in observedAttributes : \A text \in Texts(name) :
              (IsNumericText(text) /\ IsUpdate(name, text)) =>
                 FieldAfter(name) = TextValue(text) ]_vars

\* the page has set max to "25" (max = 25) and a step has taken value from
\* 10 to 11 and written "11" into the counter attribute
C16_UpdateInStepOut ==
    /\ lastOp = "step+"
    /\ "max" \in DOMAIN attrs /\ attrs["max"] = << "2", "5" >>
    /\ max = 25
    /\ counter = 11
    /\ "counter" \in DOMAIN attrs /\ attrs["counter"] = << "1", "1" >>
    /\ nEnv = 2

(***************************************************************************)
(* C17. While the element is attached, ArrowRight does what step(+1) does, *)
(* ArrowLeft what step(-1) does, r and R what reset does, and any other    *)
(* key changes nothing.                                                    *)
(***************************************************************************)
\* the element after the control the key stands for has run
Control(key) ==
    IF key = "ArrowRight" THEN change(Cur, 1)
    ELSE IF key = "ArrowLeft" THEN change(Cur, 0 - 1)
    ELSE IF key \in { "r", "R" } THEN doReset(Cur)
    ELSE Cur

C17_KeysAreControls ==
    [][ \A key \in Keys : (connected /\ IsKey(key)) => Cur' = Control(key) ]_vars

\* created with counter = "05", attached, and one step(-1): value = 4
C17_AfterRetreat ==
    /\ connected /\ keyListener
    /\ lastOp = "step-"
    /\ counter = 4
    /\ start = 5
    /\ nEnv = 1

(***************************************************************************)
(* C18. Detaching an attached element and attaching it again leaves value, *)
(* start, min and max as they were.                                        *)
(* connectedCallback sets _start to _counter when there is no numeric      *)
(* start attribute.                                                        *)
(***************************************************************************)
\* the element after a detach followed by an attach
Reattached == connectedCallback(disconnectedCallback(Cur))

C18_ReattachmentPreservesFields ==
    connected =>
        /\ Reattached.counter = counter
        /\ Reattached.start = start
        /\ Reattached.min = min
        /\ Reattached.max = max

(***************************************************************************)
(* C19. Once rendered, #inc is enabled iff step(+1) would change value and *)
(* #dec is enabled iff step(-1) would change value.                        *)
(* With value outside [min, max] a button is enabled whose step _change    *)
(* rejects.                                                                *)
(***************************************************************************)
C19_EnabledIffStepChanges ==
    rendered =>
        /\ (~dom.incDisabled) <=> (change(Cur, 1).counter # counter)
        /\ (~dom.decDisabled) <=> (change(Cur, 0 - 1).counter # counter)

(***************************************************************************)
(* C20. A step or a reset from a state with min <= value <= max ends in    *)
(* such a state; and whenever min <= max, a reset ends in such a state     *)
(* from any state.                                                         *)
(***************************************************************************)
InRange == min <= counter /\ counter <= max

C20_RangePreserved ==
    [][ /\ \A delta \in { 0 - 1, 1 } : (InRange /\ IsStep(delta)) => InRange'
        /\ (InRange /\ IsReset) => InRange'
        /\ (min <= max /\ IsReset) => InRange' ]_vars

\* created with min = "18", max = "21" and value 0 below the range; the reset
\* has put value at 18
C20_ResetIntoRange ==
    /\ lastOp = "reset"
    /\ min = 18 /\ max = 21 /\ start = 0
    /\ counter = 18
    /\ attrs["counter"] = << "1", "8" >>
    /\ nEnv = 1

(***************************************************************************)
(* C21. A step or a reset leaves start, min and max, and every attribute   *)
(* but counter, as they were: the attributeChangedCallback its write of    *)
(* the counter attribute re-enters assigns _counter only.                  *)
(***************************************************************************)
\* the attributes other than counter
OtherAttributes(a) == [n \in (DOMAIN a) \ { "counter" } |-> a[n]]

C21_StepAndResetFrame ==
    [][ (IsReset \/ \E delta \in { 0 - 1, 1 } : IsStep(delta)) =>
          /\ UNCHANGED << start, min, max >>
          /\ OtherAttributes(attrs') = OtherAttributes(attrs) ]_vars

\* created with min = "18" and max = "21": after a reset and steps that
\* wrote the counter attribute, start, min and max are as configured
C21_ConfigurationKept ==
    /\ lastOp = "step-"
    /\ DOMAIN attrs = { "counter", "min", "max" }
    /\ attrs["counter"] = << "1", "9" >>
    /\ min = 18 /\ max = 21 /\ start = 0
    /\ counter = 19

(***************************************************************************)
(* C22. Whenever the counter attribute is present and Number() of it is    *)
(* finite, value is that number.                                           *)
(***************************************************************************)
C22_AttributeAgreesWithValue ==
    ("counter" \in DOMAIN attrs /\ isFinite(Number(attrs["counter"]))) =>
        Finite(counter) = Number(attrs["counter"])

\* created with counter = "05" and attached: the attribute still reads "05"
\* and value is 5
C22_ConfiguredAndAttached ==
    /\ connected
    /\ lastOp = "other"
    /\ "counter" \in DOMAIN attrs /\ attrs["counter"] = << "0", "5" >>
    /\ counter = 5
    /\ nEnv = 1

====
